---- MODULE Spec2Model ----
(***************************************************************************)
(* A model of the MARS Red Code simulator: the core (core.py), the token   *)
(* categories (assemblytoken.py), the interpreter and its programs         *)
(* (interpreter.py), the assembler (assembler.py), the lexer (lexer.py)    *)
(* and the classes Process (process.py) and Program (Program.py).          *)
(*                                                                         *)
(* A core word is the Python list [opcode, a_field_mode, a_field_val,      *)
(* b_field_mode, b_field_val]; it is modelled as a 5-tuple.  Python's      *)
(* list index i is the sequence index i + 1.  A Python call either         *)
(* returns a value, returns None, or raises: an outcome record             *)
(* [exc, hasret, ret, core] keeps which, with the core the call leaves.    *)
(***************************************************************************)
EXTENDS Integers, Sequences, FiniteSets, TLC

VARIABLES
    core,       \* Core.__core: the list of words
    pre,        \* the core as it was before the last call
    result,     \* the last call: its name, arguments and outcome
    size_arg,   \* the size argument the core was constructed with
    nops,       \* number of calls made on the core since construction
    programs,   \* Interpreter.__programs: the dict of Program objects
    program,    \* a Program object: Program.__processes and Program.__index
    heap,       \* Core.__core as a list of references to list objects
    lexer,      \* a Lexer object: the fields of Lexer
    Program_pc  \* Program.pc of Program.py: the list of the class Program

vars == <<core, pre, result, size_arg, nops, programs, program, heap, lexer, Program_pc>>

-----------------------------------------------------------------------------
(* AssemblyToken categories (assemblytoken.py).                            *)

DAT == 0
MOV == 1
ADD == 2
SUB == 3
MUL == 4
DIV == 5
MOD == 6
JMP == 7
JMZ == 8
JMN == 9
DJN == 10
SPL == 11
CMP == 12
SEQ == 13
SNE == 14
SLT == 15
LDP == 16
STP == 17
NOP == 18
IMMEDIATE == 19
DIRECT == 20
A_INDIRECT == 21
B_INDIRECT == 22
A_INDIRECT_PRE == 23
B_INDIRECT_PRE == 24
A_INDIRECT_POST == 25
B_INDIRECT_POST == 26
INT == 27
MINUS == 28
EOF == 29
NEWLINE == 30
COMMA == 31
NULL == 32

-----------------------------------------------------------------------------
(* Bounds of the model.                                                    *)

\* Largest core size constructed.
MaxSize == 3
\* Largest absolute operand value of the instruction under execution.
MaxVal == 1
\* Largest number of calls made on a freshly constructed core.
MaxOps == 2

-----------------------------------------------------------------------------
(* Outcomes of a call.                                                     *)

Ok(c, r) == [exc |-> "none", hasret |-> TRUE, ret |-> r, core |-> c]
OkNone(c) == [exc |-> "none", hasret |-> FALSE, ret |-> 0, core |-> c]
Raise(e, c) == [exc |-> e, hasret |-> FALSE, ret |-> 0, core |-> c]

-----------------------------------------------------------------------------
(* Core (core.py).                                                         *)

\* A word as Core.__init__ fills it.
NullWord == <<NULL, NULL, NULL, NULL, NULL>>

\* Core.__init__: range(size) is empty for size <= 0, so the list
\* comprehension builds a list of max(size, 0) words and nothing is raised.
Core_init(size) == [index \in 1..(IF size > 0 THEN size ELSE 0) |-> NullWord]

coresize(c) == Len(c)

opcode(c, address) ==
    IF address < 0 \/ address >= coresize(c)
    THEN Raise("IndexError", c)
    ELSE Ok(c, c[address + 1][1])

a_field_mode(c, address) ==
    IF address < 0 \/ address >= coresize(c)
    THEN Raise("IndexError", c)
    ELSE Ok(c, c[address + 1][2])

\* Mutant of a_field_val: the address is taken modulo the core size instead
\* of being refused.
a_field_val_wrapping(c, address) ==
    IF coresize(c) = 0
    THEN Raise("IndexError", c)
    ELSE Ok(c, c[(address % coresize(c)) + 1][3])

a_field_val(c, address) ==
    IF address < 0 \/ address >= coresize(c)
    THEN Raise("IndexError", c)
    ELSE Ok(c, c[address + 1][3])

b_field_mode(c, address) ==
    IF address < 0 \/ address >= coresize(c)
    THEN Raise("IndexError", c)
    ELSE Ok(c, c[address + 1][4])

b_field_val(c, address) ==
    IF address < 0 \/ address >= coresize(c)
    THEN Raise("IndexError", c)
    ELSE Ok(c, c[address + 1][5])

\* Mutant of put_instr: the guard accepts address = coresize and the word is
\* added at the end of the list.
put_instr_growing(c, op, a_mode, a_val, b_mode, b_val, address) ==
    IF address < 0 \/ address > coresize(c)
    THEN Raise("IndexError", c)
    ELSE IF address = coresize(c)
    THEN OkNone(Append(c, <<op, a_mode, a_val, b_mode, b_val>>))
    ELSE OkNone([c EXCEPT ![address + 1] = <<op, a_mode, a_val, b_mode, b_val>>])

put_instr(c, op, a_mode, a_val, b_mode, b_val, address) ==
    IF address < 0 \/ address >= coresize(c)
    THEN Raise("IndexError", c)
    ELSE OkNone([c EXCEPT ![address + 1] = <<op, a_mode, a_val, b_mode, b_val>>])

put_opcode(c, op, address) ==
    IF address < 0 \/ address >= coresize(c)
    THEN Raise("IndexError", c)
    ELSE OkNone([c EXCEPT ![address + 1][1] = op])

put_a_field_mode(c, a_mode, address) ==
    IF address < 0 \/ address >= coresize(c)
    THEN Raise("IndexError", c)
    ELSE OkNone([c EXCEPT ![address + 1][2] = a_mode])

put_a_field_val(c, a_val, address) ==
    IF address < 0 \/ address >= coresize(c)
    THEN Raise("IndexError", c)
    ELSE OkNone([c EXCEPT ![address + 1][3] = a_val])

put_b_field_mode(c, b_mode, address) ==
    IF address < 0 \/ address >= coresize(c)
    THEN Raise("IndexError", c)
    ELSE OkNone([c EXCEPT ![address + 1][4] = b_mode])

put_b_field_val(c, b_val, address) ==
    IF address < 0 \/ address >= coresize(c)
    THEN Raise("IndexError", c)
    ELSE OkNone([c EXCEPT ![address + 1][5] = b_val])

-----------------------------------------------------------------------------
(* Interpreter (interpreter.py).                                           *)

\* Mutant of __next: the address after the last one is not wrapped to 0.
__next_unwrapped(c, address) == address + 1

\* Interpreter.__next
__next(c, address) ==
    IF address = coresize(c) - 1
    THEN 0
    ELSE address + 1

\* Interpreter.__get_direct_address.  Python's % with a positive modulus
\* is never negative, as is TLA+'s.
__get_direct_address(c, direct_val, address) ==
    IF address < 0 \/ address >= coresize(c)
    THEN Raise("IndexError", c)
    ELSE Ok(c, (direct_val + address) % coresize(c))

\* AssemblyToken has no attribute INDIRECT: evaluating the comparison
\* `b_mode == Token.INDIRECT` raises AttributeError before anything is
\* written.
Token_INDIRECT(c) == Raise("AttributeError", c)

\* Mutant of __execute_jmp: an immediate A-field is resolved like a direct
\* one, relative to the address of the JMP.
__execute_jmp_relative(c, address) ==
    IF address < 0 \/ address >= coresize(c)
    THEN Raise("IndexError", c)
    ELSE
    LET a_mode == a_field_mode(c, address).ret
        a_val  == a_field_val(c, address).ret
    IN  IF a_mode \in {IMMEDIATE, DIRECT}
        THEN Ok(c, __get_direct_address(c, a_val, address).ret)
        ELSE Raise("RuntimeError", c)

\* Interpreter.__execute_jmp
__execute_jmp(c, address) ==
    IF address < 0 \/ address >= coresize(c)
    THEN Raise("IndexError", c)         \* raised by the first read
    ELSE
    LET a_mode == a_field_mode(c, address).ret
        a_val  == a_field_val(c, address).ret
    IN  IF a_mode = IMMEDIATE
        THEN Ok(c, a_field_val(c, address).ret)
        ELSE IF a_mode = DIRECT
        THEN LET dest_address == __get_direct_address(c, a_val, address).ret
             IN  Ok(c, a_field_val(c, dest_address).ret)
        ELSE Raise("RuntimeError", c)

\* Mutant of CopyInstr: the B-field is not copied; the destination keeps
\* its own.
CopyInstr_withoutB(c, src_address, dest_address) ==
    put_instr(c, opcode(c, src_address).ret,
                 a_field_mode(c, src_address).ret,
                 a_field_val(c, src_address).ret,
                 b_field_mode(c, dest_address).ret,
                 b_field_val(c, dest_address).ret,
                 dest_address)

\* The five reads and the put_instr of a whole-instruction copy.
CopyInstr(c, src_address, dest_address) ==
    put_instr(c, opcode(c, src_address).ret,
                 a_field_mode(c, src_address).ret,
                 a_field_val(c, src_address).ret,
                 b_field_mode(c, src_address).ret,
                 b_field_val(c, src_address).ret,
                 dest_address)

\* The return statement that ends __execute_mov and __execute_add: the
\* writes before it cannot raise (their addresses are an in-range address
\* or a result of __get_direct_address), an AttributeError propagates.
ThenNext(o, address) ==
    IF o.exc = "none" THEN Ok(o.core, __next(o.core, address)) ELSE o

\* Mutant of MovImmediateA: an immediate B-field is resolved like a direct
\* one, so the literal lands in the word at address + b_val.
MovImmediateA_resolvingB(c, address, a_val, b_mode, b_val) ==
    IF b_mode \in {IMMEDIATE, DIRECT}
    THEN LET dest_address == __get_direct_address(c, b_val, address).ret
         IN  put_b_field_val(c, a_val, dest_address)
    ELSE Token_INDIRECT(c)

\* Interpreter.__execute_mov, the branch taken when the A-field is immediate.
MovImmediateA(c, address, a_val, b_mode, b_val) ==
    IF b_mode = IMMEDIATE
    THEN put_b_field_val(c, a_val, address)
    ELSE IF b_mode = DIRECT
    THEN LET dest_address == __get_direct_address(c, b_val, address).ret
         IN  put_b_field_val(c, a_val, dest_address)
    ELSE Token_INDIRECT(c)

\* Interpreter.__execute_mov, the branch taken when the A-field is direct.
MovDirectA(c, address, a_val, b_mode, b_val) ==
    LET src_address == __get_direct_address(c, a_val, address).ret
    IN  IF b_mode = IMMEDIATE
        THEN put_b_field_val(c, b_field_val(c, src_address).ret, address)
        ELSE IF b_mode = DIRECT
        THEN LET dest_address == __get_direct_address(c, b_val, address).ret
             IN  CopyInstr(c, src_address, dest_address)
        ELSE Token_INDIRECT(c)

\* Mutant of MovIndirectA: the pointer is taken from the B-field value of
\* the intermediate word instead of its A-field value.
MovIndirectA_viaB(c, address, a_val, b_mode, b_val) ==
    LET intermediate_address == __get_direct_address(c, a_val, address).ret
        intermediate_b_val == b_field_val(c, intermediate_address).ret
        src_address ==
            __get_direct_address(c, a_val + intermediate_b_val, address).ret
    IN  IF b_mode = IMMEDIATE
        THEN put_b_field_val(c, a_field_val(c, src_address).ret, address)
        ELSE IF b_mode = DIRECT
        THEN LET dest_address == __get_direct_address(c, b_val, address).ret
             IN  CopyInstr(c, src_address, dest_address)
        ELSE Token_INDIRECT(c)

\* Interpreter.__execute_mov, the else branch ("A-field is INDIRECT"): taken
\* for every A-field mode that is neither IMMEDIATE nor DIRECT.
MovIndirectA(c, address, a_val, b_mode, b_val) ==
    LET intermediate_address == __get_direct_address(c, a_val, address).ret
        intermediate_a_val == a_field_val(c, intermediate_address).ret
        src_address ==
            __get_direct_address(c, a_val + intermediate_a_val, address).ret
    IN  IF b_mode = IMMEDIATE
        THEN put_b_field_val(c, a_field_val(c, src_address).ret, address)
        ELSE IF b_mode = DIRECT
        THEN LET dest_address == __get_direct_address(c, b_val, address).ret
             IN  CopyInstr(c, src_address, dest_address)
        ELSE Token_INDIRECT(c)

\* Interpreter.__execute_mov
__execute_mov(c, address) ==
    IF address < 0 \/ address >= coresize(c)
    THEN Raise("IndexError", c)         \* raised by the first read
    ELSE
    LET a_mode == a_field_mode(c, address).ret
        a_val  == a_field_val(c, address).ret
        b_mode == b_field_mode(c, address).ret
        b_val  == b_field_val(c, address).ret
    IN  ThenNext(IF a_mode = IMMEDIATE
                 THEN MovImmediateA(c, address, a_val, b_mode, b_val)
                 ELSE IF a_mode = DIRECT
                 THEN MovDirectA(c, address, a_val, b_mode, b_val)
                 ELSE MovIndirectA(c, address, a_val, b_mode, b_val),
                 address)

\* Interpreter.execute.  The branches that only `pass` fall off the end of
\* the function, which returns None.
execute(c, address) ==
    IF address < 0 \/ address >= coresize(c)
    THEN Raise("RuntimeError", c)
    ELSE
    LET op == opcode(c, address).ret
    IN  IF op = NOP THEN Ok(c, __next(c, address))
        ELSE IF op = DAT THEN Raise("RuntimeError", c)
        ELSE IF op = MOV THEN __execute_mov(c, address)
        ELSE IF op \in {ADD, SUB, MUL, DIV, MOD} THEN OkNone(c)
        ELSE IF op = JMP THEN __execute_jmp(c, address)
        ELSE IF op \in {JMZ, JMN, DJN, SPL, CMP, SEQ, SNE, SLT, LDP, STP}
        THEN OkNone(c)
        ELSE IF op = NULL THEN Raise("RuntimeError", c)
        ELSE Raise("RuntimeError", c)

-----------------------------------------------------------------------------
(* The core as Python keeps it (core.py): Core.__core is a list of         *)
(* references to list objects, and two entries could refer to one object.  *)
(* h.cells[i] is the object entry i - 1 of the list refers to, h.objs[k]   *)
(* the five components of object k.  An object no entry refers to any      *)
(* more stays in h.objs.                                                   *)

\* The core before any has been constructed.
NoHeap == [cells |-> <<>>, objs |-> <<>>]

\* The words the readers of the core see.
Contents(h) == [i \in 1..Len(h.cells) |-> h.objs[h.cells[i]]]

\* Core.__init__: the list comprehension evaluates the list display once
\* for every index, so every entry refers to an object of its own.
Core_init_lists(size) ==
    LET n == IF size > 0 THEN size ELSE 0
    IN  [cells |-> [index \in 1..n |-> index],
         objs |-> [index \in 1..n |-> NullWord]]

\* Core.put_instr: the entry is bound to a new list object.
put_instr_lists(h, word, address) ==
    IF address < 0 \/ address >= Len(h.cells)
    THEN h
    ELSE [cells |-> [h.cells EXCEPT ![address + 1] = Len(h.objs) + 1],
          objs |-> Append(h.objs, word)]

\* Core.put_opcode, put_a_field_mode, put_a_field_val, put_b_field_mode and
\* put_b_field_val: component j of the object the entry refers to is
\* assigned, in place.
put_field_lists(h, j, v, address) ==
    IF address < 0 \/ address >= Len(h.cells)
    THEN h
    ELSE [h EXCEPT !.objs[h.cells[address + 1]][j] = v]

\* Mutant of CopyInstr_lists: the destination entry is bound to the list
\* object of the source entry.
CopyInstr_lists_sharing(h, src_address, dest_address) ==
    [h EXCEPT !.cells[dest_address + 1] = h.cells[src_address + 1]]

\* The whole-instruction copy of __execute_mov: the five components of the
\* source are read and put_instr is called with them.
CopyInstr_lists(h, src_address, dest_address) ==
    put_instr_lists(h, Contents(h)[src_address + 1], dest_address)

\* The last call of execute copies a whole instruction: the word at
\* address is a MOV with a direct A-field and a direct B-field.
CopiesInstr(c, address) ==
    /\ 0 <= address /\ address < Len(c)
    /\ c[address + 1][1] = MOV
    /\ c[address + 1][2] = DIRECT
    /\ c[address + 1][4] = DIRECT

\* The source and the destination of that copy.
CopySource(c, address) ==
    __get_direct_address(c, c[address + 1][3], address).ret
CopyDest(c, address) ==
    __get_direct_address(c, c[address + 1][5], address).ret

\* Interpreter.execute on the list objects, for a core whose MOV words all
\* have a direct A-field and a direct B-field: such a MOV copies a whole
\* instruction, and execute of any other word of such a core writes
\* nothing.
execute_lists(h, address) ==
    IF CopiesInstr(Contents(h), address)
    THEN CopyInstr_lists(h, CopySource(Contents(h), address),
                            CopyDest(Contents(h), address))
    ELSE h

-----------------------------------------------------------------------------
(* Program (interpreter.py): a list of the program counters of its         *)
(* processes and an index into the list.  The outcome of a call keeps the  *)
(* Program the call leaves.                                                *)

PrOk(prog, r) == [exc |-> "none", hasret |-> TRUE, ret |-> r, program |-> prog]
PrNone(prog) == [exc |-> "none", hasret |-> FALSE, ret |-> 0, program |-> prog]
PrRaise(e, prog) == [exc |-> e, hasret |-> FALSE, ret |-> 0, program |-> prog]

\* Program.__init__
Program_init(base_address) == [processes |-> <<base_address>>, index |-> 0]

\* The value of `program` while no Program has been constructed.
NoProgram == [processes |-> <<>>, index |-> 0]

\* Program.add_process
add_process(prog, address) ==
    PrNone([prog EXCEPT !.processes = Append(@, address)])

\* Program.current_process_pc.  The subscript raises IndexError too when the
\* index is past the end of the list.
current_process_pc(prog) ==
    IF Len(prog.processes) = 0
    THEN PrRaise("IndexError", prog)
    ELSE IF prog.index >= Len(prog.processes)
    THEN PrRaise("IndexError", prog)
    ELSE PrOk(prog, prog.processes[prog.index + 1])

\* Mutant of next_process: the index is incremented at the last process too.
next_process_unwrapped(prog) ==
    IF Len(prog.processes) = 0
    THEN PrRaise("IndexError", prog)
    ELSE PrNone([prog EXCEPT !.index = @ + 1])

\* Program.next_process
next_process(prog) ==
    IF Len(prog.processes) = 0
    THEN PrRaise("IndexError", prog)
    ELSE IF prog.index = Len(prog.processes) - 1
    THEN PrNone([prog EXCEPT !.index = 0])
    ELSE PrNone([prog EXCEPT !.index = @ + 1])

\* Program.kill_current_process: `del self.__processes[self.__index]`; the
\* index is left as it is.
kill_current_process(prog) ==
    IF Len(prog.processes) = 0
    THEN PrRaise("IndexError", prog)
    ELSE IF prog.index >= Len(prog.processes)
    THEN PrRaise("IndexError", prog)
    ELSE PrNone([prog EXCEPT !.processes =
                    [i \in 1..(Len(@) - 1) |->
                        IF i < prog.index + 1 THEN @[i] ELSE @[i + 1]]])

\* Program.update_current_process_pc
update_current_process_pc(prog, address) ==
    IF Len(prog.processes) = 0
    THEN PrRaise("IndexError", prog)
    ELSE IF prog.index >= Len(prog.processes)
    THEN PrRaise("IndexError", prog)
    ELSE PrNone([prog EXCEPT !.processes[prog.index + 1] = address])

-----------------------------------------------------------------------------
(* Interpreter.__init__ and Interpreter.run (interpreter.py).  The dict    *)
(* Interpreter.__programs is modelled as the sequence of its entries       *)
(* [key, program] in insertion order, the order a dict is iterated in.     *)

\* d[key] = value: a key already in the dict keeps its position.
DictSet(d, key, value) ==
    IF \E i \in 1..Len(d) : d[i].key = key
    THEN [i \in 1..Len(d) |->
            IF d[i].key = key THEN [key |-> key, program |-> value] ELSE d[i]]
    ELSE Append(d, [key |-> key, program |-> value])

\* The loop of Interpreter.__init__ over base_addresses.
RECURSIVE RegisterPrograms(_, _)
RegisterPrograms(d, base_addresses) ==
    IF Len(base_addresses) = 0
    THEN d
    ELSE RegisterPrograms(
            DictSet(d, Head(base_addresses), Program_init(Head(base_addresses))),
            Tail(base_addresses))

\* Interpreter.__init__: self.__programs after the constructor.
Interpreter_init(base_addresses) == RegisterPrograms(<<>>, base_addresses)

\* Outcomes of run: the core and the dict of programs it leaves.
RunNone(c, d) ==
    [exc |-> "none", hasret |-> FALSE, ret |-> 0, core |-> c, programs |-> d]
RunRaise(e, c, d) ==
    [exc |-> e, hasret |-> FALSE, ret |-> 0, core |-> c, programs |-> d]

\* Interpreter.run.  `for program in self.__programs` iterates the keys of
\* the dict, the base addresses, so in the first iteration
\* `program.current_process_pc()` is an attribute lookup on an int: it
\* raises AttributeError, which neither `except IndexError` nor the inner
\* `except RuntimeError` catches, and run ends there.  With no program the
\* loop body is not entered and run returns None.
run(c, d) ==
    IF Len(d) = 0
    THEN RunNone(c, d)
    ELSE RunRaise("AttributeError", c, d)

-----------------------------------------------------------------------------
(* Assembler (assembler.py).  A token is the pair <<category, lexeme>>; the *)
(* parser state s is [tokenindex, token], the fields Assembler.__tokenindex *)
(* and Assembler.__token.  A parsing step has the outcome [exc, val, s].    *)

AsmOk(v, s) == [exc |-> "none", val |-> v, s |-> s]
AsmRaise(e, s) == [exc |-> e, val |-> NULL, s |-> s]

\* Assembler.__advance: past the end of the list the token stays.
__advance(tokenlist, s) ==
    LET tokenindex == s.tokenindex + 1
    IN  [tokenindex |-> tokenindex,
         token |-> IF ~(tokenindex >= Len(tokenlist))
                   THEN tokenlist[tokenindex + 1]
                   ELSE s.token]

\* Assembler.__consume
__consume(tokenlist, s, expected_category) ==
    IF s.token[1] = expected_category
    THEN AsmOk(NULL, __advance(tokenlist, s))
    ELSE AsmRaise("RuntimeError", s)

\* Assembler.__opcode
__opcode(tokenlist, s) == AsmOk(s.token[1], __advance(tokenlist, s))

\* Assembler.__address_mode.  For a token that is not an INT the elif
\* builds the list [Token.IMMEDIATE, Token.DIRECT, Token.INDIRECT], and
\* AssemblyToken has no attribute INDIRECT.
__address_mode(tokenlist, s) ==
    IF s.token[1] = INT
    THEN AsmOk(DIRECT, s)
    ELSE AsmRaise("AttributeError", s)

\* Assembler.__operand.  The operand is the lexeme, a string of digits as
\* the lexer and the doctests build it; negating it is `operand - (2 *
\* operand)` on a string, a TypeError.
__operand(tokenlist, s) ==
    LET negative == s.token[1] = MINUS
        s1 == IF negative THEN __advance(tokenlist, s) ELSE s
    IN  IF s1.token[1] = INT
        THEN IF negative
             THEN AsmRaise("TypeError", __advance(tokenlist, s1))
             ELSE AsmOk(s1.token[2], __advance(tokenlist, s1))
        ELSE AsmRaise("RuntimeError", s1)

\* An addressing mode and the operand after it.
ModeAndOperand(tokenlist, s) ==
    LET mode == __address_mode(tokenlist, s)
    IN  IF mode.exc # "none" THEN mode ELSE __operand(tokenlist, mode.s)

\* self.__core.put(...): the Core of core.py has no attribute put (its
\* writer is put_instr), so the call raises AttributeError and nothing is
\* written.
Core_put(c, s) == [exc |-> "AttributeError", s |-> s, core |-> c]

\* The outcome of an instruction whose parsing step o raised.
AsmFailed(o, c) == [exc |-> o.exc, s |-> o.s, core |-> c]

\* Assembler.__two_instr
__two_instr(tokenlist, s, c, next_addr) ==
    LET a_field == ModeAndOperand(tokenlist, __advance(tokenlist, s))
    IN  IF a_field.exc # "none" THEN AsmFailed(a_field, c) ELSE
        LET comma == __consume(tokenlist, a_field.s, COMMA)
        IN  IF comma.exc # "none" THEN AsmFailed(comma, c) ELSE
            LET b_field == ModeAndOperand(tokenlist, comma.s)
            IN  IF b_field.exc # "none" THEN AsmFailed(b_field, c)
                ELSE Core_put(c, b_field.s)

\* Assembler.__one_instr
__one_instr(tokenlist, s, c, next_addr) ==
    LET a_field == ModeAndOperand(tokenlist, __opcode(tokenlist, s).s)
    IN  IF a_field.exc # "none" THEN AsmFailed(a_field, c)
        ELSE Core_put(c, a_field.s)

\* Assembler.__zero_instr
__zero_instr(tokenlist, s, c, next_addr) ==
    Core_put(c, __opcode(tokenlist, s).s)

\* Assembler.__dat_instr
__dat_instr(tokenlist, s, c, next_addr) ==
    LET a_field == ModeAndOperand(tokenlist, __opcode(tokenlist, s).s)
    IN  IF a_field.exc # "none" THEN AsmFailed(a_field, c) ELSE
        IF a_field.s.token[1] = COMMA
        THEN LET b_field ==
                    ModeAndOperand(tokenlist, __advance(tokenlist, a_field.s))
             IN  IF b_field.exc # "none" THEN AsmFailed(b_field, c)
                 ELSE Core_put(c, b_field.s)
        ELSE Core_put(c, a_field.s)

\* Assembler.__instruction
__instruction(tokenlist, s, c, next_addr) ==
    IF s.token[1] \in {MOV, SEQ, SNE, CMP, ADD, SUB, MUL, DIV, MOD}
    THEN __two_instr(tokenlist, s, c, next_addr)
    ELSE IF s.token[1] \in {SLT, LDP, STP, JMP, JMZ, JMN, DJN, SPL}
    THEN __one_instr(tokenlist, s, c, next_addr)
    ELSE IF s.token[1] \in {NOP}
    THEN __zero_instr(tokenlist, s, c, next_addr)
    ELSE IF s.token[1] \in {DAT}
    THEN __dat_instr(tokenlist, s, c, next_addr)
    ELSE [exc |-> "RuntimeError", s |-> s, core |-> c]

\* The while loop of Assembler.assemble.
RECURSIVE AssembleLoop(_, _, _, _)
AssembleLoop(tokenlist, s, c, next_addr) ==
    IF s.token[1] = EOF
    THEN OkNone(c)
    ELSE
    LET instr == __instruction(tokenlist, s, c, next_addr)
    IN  IF instr.exc # "none" THEN Raise(instr.exc, instr.core) ELSE
        LET newline == __consume(tokenlist, instr.s, NEWLINE)
        IN  IF newline.exc # "none" THEN Raise(newline.exc, instr.core)
            ELSE AssembleLoop(tokenlist, newline.s, instr.core,
                              IF next_addr = coresize(instr.core) - 1
                              THEN 0
                              ELSE next_addr + 1)

\* Assembler.assemble.  The guard lets address = coresize through; the
\* subscript tokenlist[0] raises IndexError on an empty list.
assemble(tokenlist, address, c) ==
    IF address < 0 \/ address > coresize(c)
    THEN Raise("IndexError", c)
    ELSE IF Len(tokenlist) = 0
    THEN Raise("IndexError", c)
    ELSE AssembleLoop(tokenlist, [tokenindex |-> 0, token |-> tokenlist[1]],
                      c, address)

-----------------------------------------------------------------------------
(* Lexer (lexer.py).  A text is the sequence of its characters, a          *)
(* character a string of length one, and the empty string is what          *)
(* __get_next_char returns at the end of the text.  A token is             *)
(* <<category, lexeme, column, line>>.                                     *)

\* Lexer.__init__
Lexer_init ==
    [program |-> <<>>, programindex |-> 0, line |-> 0, column |-> 0,
     tokenlist |-> <<>>, prevchar |-> "\n", blankline |-> TRUE]

\* str.isspace, str.isdigit, str.isalpha and str.upper on a character of
\* ASCII.
isspace(c) == c \in {" ", "\t", "\r", "\n"}
isdigit(c) == c \in {"0", "1", "2", "3", "4", "5", "6", "7", "8", "9"}
Lowercase ==
    << "a", "b", "c", "d", "e", "f", "g", "h", "i", "j", "k", "l", "m",
       "n", "o", "p", "q", "r", "s", "t", "u", "v", "w", "x", "y", "z" >>
Uppercase ==
    << "A", "B", "C", "D", "E", "F", "G", "H", "I", "J", "K", "L", "M",
       "N", "O", "P", "Q", "R", "S", "T", "U", "V", "W", "X", "Y", "Z" >>
isalpha(c) ==
    \E i \in 1..Len(Lowercase) : c = Lowercase[i] \/ c = Uppercase[i]
upper(c) ==
    IF \E i \in 1..Len(Lowercase) : c = Lowercase[i]
    THEN Uppercase[CHOOSE i \in 1..Len(Lowercase) : c = Lowercase[i]]
    ELSE c

\* The string of the upper-case characters of a sequence of characters.
RECURSIVE upper_lexeme(_)
upper_lexeme(chars) ==
    IF Len(chars) = 0 THEN "" ELSE upper(Head(chars)) \o upper_lexeme(Tail(chars))

\* AssemblyToken.keywords and AssemblyToken.smalltokens
keywords ==
    ("DAT" :> DAT) @@ ("MOV" :> MOV) @@ ("ADD" :> ADD) @@ ("SUB" :> SUB) @@
    ("MUL" :> MUL) @@ ("DIV" :> DIV) @@ ("MOD" :> MOD) @@ ("JMP" :> JMP) @@
    ("JMZ" :> JMZ) @@ ("JMN" :> JMN) @@ ("DJN" :> DJN) @@ ("SPL" :> SPL) @@
    ("CMP" :> CMP) @@ ("SEQ" :> SEQ) @@ ("SNE" :> SNE) @@ ("SLT" :> SLT) @@
    ("LDP" :> LDP) @@ ("STP" :> STP) @@ ("NOP" :> NOP)
smalltokens ==
    ("#" :> IMMEDIATE) @@ ("$" :> DIRECT) @@ ("*" :> A_INDIRECT) @@
    ("@" :> B_INDIRECT) @@ ("{" :> A_INDIRECT_PRE) @@ ("<" :> B_INDIRECT_PRE) @@
    ("}" :> A_INDIRECT_POST) @@ (">" :> B_INDIRECT_POST) @@ ("" :> EOF) @@
    ("\n" :> NEWLINE) @@ ("," :> COMMA) @@ ("-" :> MINUS)

\* Outcomes of tokenize: the Lexer it leaves, and the list it returns.
LexOk(lx) ==
    [exc |-> "none", hasret |-> TRUE, ret |-> lx.tokenlist, lexer |-> lx]
LexRaise(e, lx) ==
    [exc |-> e, hasret |-> FALSE, ret |-> <<>>, lexer |-> lx]

\* Lexer.__get_next_char: the character it returns and the Lexer it
\* leaves.
__get_next_char(lx) ==
    LET started == IF lx.prevchar = "\n"
                   THEN [lx EXCEPT !.line = @ + 1, !.column = 0,
                                   !.blankline = TRUE]
                   ELSE lx
    IN  IF started.programindex >= Len(started.program)
        THEN [c |-> "",
              lexer |-> [started EXCEPT !.column = 1, !.prevchar = ""]]
        ELSE LET next_char == started.program[started.programindex + 1]
                 read == [started EXCEPT
                            !.programindex = @ + 1,
                            !.column = @ + 1,
                            !.blankline = IF isspace(next_char) THEN @ ELSE FALSE,
                            !.prevchar = next_char]
             IN  [c |-> IF next_char = "\n" /\ read.blankline
                        THEN " " ELSE next_char,
                  lexer |-> read]

\* `while c != '\n' and c.isspace(): c = self.__get_next_char()`
RECURSIVE SkipSpaces(_)
SkipSpaces(st) ==
    IF st.c # "\n" /\ isspace(st.c)
    THEN SkipSpaces(__get_next_char(st.lexer))
    ELSE st

\* The loop that consumes the digits of a number: the lexeme, a string,
\* and the character and Lexer after it.
RECURSIVE ConsumeDigits(_, _)
ConsumeDigits(st, lexeme) ==
    LET next == __get_next_char(st.lexer)
    IN  IF isdigit(next.c)
        THEN ConsumeDigits(next, lexeme \o st.c)
        ELSE [lexeme |-> lexeme \o st.c, st |-> next]

\* The loop that consumes the letters of an opcode.
RECURSIVE ConsumeLetters(_, _)
ConsumeLetters(st, chars) ==
    LET next == __get_next_char(st.lexer)
    IN  IF isalpha(next.c)
        THEN ConsumeLetters(next, Append(chars, st.c))
        ELSE [chars |-> Append(chars, st.c), st |-> next]

\* The `while True` loop of tokenize, from the character st.c on.
RECURSIVE TokenizeLoop(_)
TokenizeLoop(st0) ==
    LET st == SkipSpaces(st0)
        column == st.lexer.column
        line == st.lexer.line
        Append_token(token, next) ==
            LET lx == [next.lexer EXCEPT !.tokenlist = Append(@, token)]
            IN  IF token[1] = EOF
                THEN LexOk(lx)
                ELSE TokenizeLoop([c |-> next.c, lexer |-> lx])
    IN  IF isdigit(st.c)
        THEN LET number == ConsumeDigits(st, "")
             IN  Append_token(<<INT, number.lexeme, column, line>>, number.st)
        ELSE IF isalpha(st.c)
        THEN LET letters == ConsumeLetters(st, <<>>)
                 lexeme == upper_lexeme(letters.chars)
             IN  IF lexeme \in DOMAIN keywords
                 THEN Append_token(<<keywords[lexeme], lexeme, column, line>>,
                                   letters.st)
                 ELSE LexRaise("SyntaxError", letters.st.lexer)
        ELSE IF st.c \in DOMAIN smalltokens
        THEN Append_token(<<smalltokens[st.c], st.c, column, line>>,
                          __get_next_char(st.lexer))
        ELSE LexRaise("SyntaxError", st.lexer)

\* Lexer.tokenize of a file with the given text.  `self.__program[-1]`
\* raises IndexError for an empty text.  The token list, the index into
\* the program and the previous character are those the Lexer was left
\* with.
tokenize(lx, text) ==
    IF Len(text) = 0
    THEN LexRaise("IndexError", [lx EXCEPT !.program = text])
    ELSE LET terminated == IF text[Len(text)] # "\n"
                           THEN Append(text, "\n")
                           ELSE text
         IN  TokenizeLoop([c |-> " ",
                           lexer |-> [lx EXCEPT !.program = terminated]])

-----------------------------------------------------------------------------
(* The classes Process (process.py) and Program (Program.py).              *)

\* Outcomes of a call: the list Program.pc the call leaves.
PcNone(list) == [exc |-> "none", hasret |-> FALSE, ret |-> 0, pc |-> list]
PcRaise(e, list) == [exc |-> e, hasret |-> FALSE, ret |-> 0, pc |-> list]

\* Program.__init__ of Program.py.  No Program object is ever given an
\* attribute pc of its own, so `self.pc` is the list of the class, the
\* same list for every Program object.
Program_py_init(list, index) ==
    IF index < 0
    THEN PcRaise("IndexError", list)
    ELSE PcNone(Append(list, index))

\* The property Process.pc, which replaces the class attribute `pc = []`
\* defined before it: its getter evaluates `self.pc`, the property again,
\* until RecursionError is raised.
Process_pc(list) == PcRaise("RecursionError", list)

\* Process.__init__: `self.pc.append(address)` reads the property.
Process_init(list, CORESIZE, address) ==
    IF address < 0 \/ address > CORESIZE
    THEN PcRaise("IndexError", list)
    ELSE Process_pc(list)

\* Process.set_pc: `index < 0` is evaluated first, then `len(self.pc)`
\* reads the property.
set_pc(list, index, address, CORESIZE) ==
    IF index < 0
    THEN PcRaise("IndexError", list)
    ELSE Process_pc(list)

-----------------------------------------------------------------------------
(* The calls made on a core.                                               *)

\* The record kept of a call: its name, its address and other arguments,
\* and its outcome.
CallRecord(op, address, arg, o) ==
    [op |-> op, address |-> address, arg |-> arg,
     exc |-> o.exc, hasret |-> o.hasret, ret |-> o.ret]

\* A call with outcome o: the core becomes the one the call leaves.
Call(op, address, arg, o) ==
    /\ core' = o.core
    /\ pre' = core
    /\ result' = CallRecord(op, address, arg, o)
    /\ UNCHANGED <<size_arg, programs, program, heap, lexer, Program_pc>>

\* Sizes a core is constructed with.
CtorSizes == -1..MaxSize

\* Addresses the calls are made with: every address of the largest core,
\* and the addresses one core size below and above them.
ProbeAddrs == -MaxSize..(2 * MaxSize - 1)

\* Instructions and field values written by the calls (those of the
\* doctests of core.py and interpreter.py).
LoadWords ==
    { <<MOV, DIRECT, 0, DIRECT, 1>>, <<DAT, IMMEDIATE, 0, IMMEDIATE, 4>> }
LoadOpcodes == {JMP}
LoadModes == {IMMEDIATE}
LoadVals == {-1}

\* The state after Core(size).
Init ==
    /\ size_arg \in CtorSizes
    /\ core = Core_init(size_arg)
    /\ pre = core
    /\ result = CallRecord("__init__", 0, <<size_arg>>, OkNone(core))
    /\ nops = 0
    /\ heap = NoHeap
    /\ lexer = Lexer_init
    /\ Program_pc = <<>>
    /\ programs = <<>>
    /\ program = NoProgram

Counted == nops < MaxOps /\ nops' = nops + 1

Read_opcode ==
    \E address \in ProbeAddrs :
        Counted /\ Call("opcode", address, <<>>, opcode(core, address))

Read_a_field_mode ==
    \E address \in ProbeAddrs :
        Counted /\ Call("a_field_mode", address, <<>>, a_field_mode(core, address))

Read_a_field_val ==
    \E address \in ProbeAddrs :
        Counted /\ Call("a_field_val", address, <<>>, a_field_val(core, address))

Read_b_field_mode ==
    \E address \in ProbeAddrs :
        Counted /\ Call("b_field_mode", address, <<>>, b_field_mode(core, address))

Read_b_field_val ==
    \E address \in ProbeAddrs :
        Counted /\ Call("b_field_val", address, <<>>, b_field_val(core, address))

Put_instr ==
    \E address \in ProbeAddrs, w \in LoadWords :
        Counted /\ Call("put_instr", address, w,
                        put_instr(core, w[1], w[2], w[3], w[4], w[5], address))

Put_opcode ==
    \E address \in ProbeAddrs, v \in LoadOpcodes :
        Counted /\ Call("put_opcode", address, <<v>>, put_opcode(core, v, address))

Put_a_field_mode ==
    \E address \in ProbeAddrs, v \in LoadModes :
        Counted /\ Call("put_a_field_mode", address, <<v>>,
                        put_a_field_mode(core, v, address))

Put_a_field_val ==
    \E address \in ProbeAddrs, v \in LoadVals :
        Counted /\ Call("put_a_field_val", address, <<v>>,
                        put_a_field_val(core, v, address))

Put_b_field_mode ==
    \E address \in ProbeAddrs, v \in LoadModes :
        Counted /\ Call("put_b_field_mode", address, <<v>>,
                        put_b_field_mode(core, v, address))

Put_b_field_val ==
    \E address \in ProbeAddrs, v \in LoadVals :
        Counted /\ Call("put_b_field_val", address, <<v>>,
                        put_b_field_val(core, v, address))

Execute ==
    \E address \in ProbeAddrs :
        Counted /\ Call("execute", address, <<>>, execute(core, address))

Next ==
    \/ Read_opcode
    \/ Read_a_field_mode
    \/ Read_a_field_val
    \/ Read_b_field_mode
    \/ Read_b_field_val
    \/ Put_instr
    \/ Put_opcode
    \/ Put_a_field_mode
    \/ Put_a_field_val
    \/ Put_b_field_mode
    \/ Put_b_field_val
    \/ Execute

Spec == Init /\ [][Next]_vars

-----------------------------------------------------------------------------
(* Execution of one instruction of a loaded core.                          *)

\* Operand values of the instruction under execution.
OperandVals == -MaxVal..MaxVal

\* The instructions under execution.
ProgWords ==
    { <<MOV, am, av, bm, bv>> :
        am \in {IMMEDIATE, DIRECT, A_INDIRECT, B_INDIRECT}, av \in OperandVals,
        bm \in {IMMEDIATE, DIRECT, B_INDIRECT}, bv \in OperandVals }
    \cup { <<JMP, am, av, NULL, NULL>> :
        am \in {IMMEDIATE, DIRECT, B_INDIRECT}, av \in OperandVals }
    \cup { <<NOP, NULL, NULL, NULL, NULL>>,
           <<ADD, IMMEDIATE, 1, DIRECT, 1>>,
           <<SPL, DIRECT, 1, NULL, NULL>>,
           <<DJN, DIRECT, -1, DIRECT, 1>> }
    \cup { <<MOV, am, av, DIRECT, bv>> :
        am \in {A_INDIRECT_PRE, B_INDIRECT_PRE},
        av \in OperandVals, bv \in OperandVals }
    \cup { <<DIV, IMMEDIATE, 0, DIRECT, 1>>,
           <<MOD, IMMEDIATE, 0, DIRECT, 1>>,
           <<MOV, NULL, 0, DIRECT, 1>> }

\* The words around it: empty words and data.
DataWords ==
    { NullWord,
      <<DAT, IMMEDIATE, -1, IMMEDIATE, 0>>,
      <<DAT, IMMEDIATE, 1, IMMEDIATE, 2>> }

\* Addresses execute is called with.
ExecAddrs == -1..MaxSize

\* A core of some size into which put_instr calls have loaded one
\* instruction and data.
InitExec ==
    /\ size_arg \in 1..MaxSize
    /\ \E p \in 0..(size_arg - 1), w \in ProgWords,
          data \in [1..size_arg -> DataWords] :
            core = [i \in 1..size_arg |-> IF i = p + 1 THEN w ELSE data[i]]
    /\ pre = core
    /\ result = CallRecord("put_instr", 0, <<>>, OkNone(core))
    /\ nops = 0
    /\ heap = NoHeap
    /\ lexer = Lexer_init
    /\ Program_pc = <<>>
    /\ programs = <<>>
    /\ program = NoProgram

ExecuteLoaded ==
    \E address \in ExecAddrs :
        /\ Call("execute", address, <<>>, execute(core, address))
        /\ UNCHANGED nops

NextExec == ExecuteLoaded

SpecExec == InitExec /\ [][NextExec]_vars

-----------------------------------------------------------------------------
(* An interpreter over a loaded core: Interpreter(core, base_addresses),   *)
(* then calls of execute and run.                                          *)

\* Largest number of base addresses an interpreter is constructed with.
MaxPrograms == 2

\* The words of the loaded core: empty words, data, a NOP, a JMP to
\* address 0 and an SPL.
RunWords ==
    { NullWord,
      <<DAT, IMMEDIATE, -1, IMMEDIATE, 0>>,
      <<NOP, NULL, NULL, NULL, NULL>>,
      <<JMP, IMMEDIATE, 0, NULL, NULL>>,
      <<SPL, DIRECT, 1, NULL, NULL>> }

\* The lists of at most n base addresses of a core of the given size.
BaseAddressLists(size, n) ==
    UNION { [1..k -> 0..(size - 1)] : k \in 0..n }

\* The record kept of a run: its outcome and the dict of programs as it was
\* before.
RunRecord(o, d) ==
    [op |-> "run", address |-> 0, arg |-> <<>>,
     exc |-> o.exc, hasret |-> o.hasret, ret |-> o.ret, was |-> d]

\* The state after Interpreter(core, base_addresses) on a loaded core.
InitRun ==
    /\ size_arg \in 1..MaxSize
    /\ core \in [1..size_arg -> RunWords]
    /\ pre = core
    /\ \E base_addresses \in BaseAddressLists(size_arg, MaxPrograms) :
        /\ programs = Interpreter_init(base_addresses)
        /\ result = [op |-> "Interpreter", address |-> 0, arg |-> base_addresses,
                     exc |-> "none", hasret |-> FALSE, ret |-> 0]
    /\ nops = 0
    /\ heap = NoHeap
    /\ lexer = Lexer_init
    /\ Program_pc = <<>>
    /\ program = NoProgram

Run ==
    LET o == run(core, programs)
    IN  /\ core' = o.core
        /\ pre' = core
        /\ programs' = o.programs
        /\ result' = RunRecord(o, programs)
        /\ UNCHANGED <<size_arg, nops, program, heap, lexer, Program_pc>>

NextRun ==
    \/ ExecuteLoaded
    \/ Run

SpecRun == InitRun /\ [][NextRun]_vars

-----------------------------------------------------------------------------
(* The calls made on a Program object.                                     *)

\* Largest number of processes of the Program.
MaxProcs == 3

\* Program counters given to the calls.
ProcPcs == 0..(MaxSize - 1)

\* The record kept of a call on the Program: its name, its argument, its
\* outcome and the Program as it was before.
ProgramRecord(op, arg, o, prog) ==
    [op |-> op, address |-> 0, arg |-> arg,
     exc |-> o.exc, hasret |-> o.hasret, ret |-> o.ret, was |-> prog]

\* A call on the Program with outcome o.
ProgramCall(op, arg, o) ==
    /\ program' = o.program
    /\ result' = ProgramRecord(op, arg, o, program)
    /\ UNCHANGED <<core, pre, size_arg, nops, programs, heap, lexer, Program_pc>>

\* The state after Program(base_address).
InitProgram ==
    /\ size_arg = 0
    /\ core = Core_init(size_arg)
    /\ pre = core
    /\ nops = 0
    /\ heap = NoHeap
    /\ lexer = Lexer_init
    /\ Program_pc = <<>>
    /\ programs = <<>>
    /\ \E base_address \in ProcPcs :
        /\ program = Program_init(base_address)
        /\ result = ProgramRecord("Program", <<base_address>>,
                                  PrNone(program), NoProgram)

Add_process ==
    \E address \in ProcPcs :
        /\ Len(program.processes) < MaxProcs
        /\ ProgramCall("add_process", <<address>>, add_process(program, address))

Current_process_pc ==
    ProgramCall("current_process_pc", <<>>, current_process_pc(program))

Next_process ==
    ProgramCall("next_process", <<>>, next_process(program))

Update_current_process_pc ==
    \E address \in ProcPcs :
        ProgramCall("update_current_process_pc", <<address>>,
                    update_current_process_pc(program, address))

NextProgram ==
    \/ Add_process
    \/ Current_process_pc
    \/ Next_process
    \/ Update_current_process_pc

SpecProgram == InitProgram /\ [][NextProgram]_vars

\* The calls on a Program, kill_current_process among them.  After a kill
\* the index can be past the end of the list, where next_process only
\* increments it: next_process is called while the index is at most
\* MaxProcs.
Kill_current_process ==
    ProgramCall("kill_current_process", <<>>, kill_current_process(program))

Next_process_again ==
    /\ program.index <= MaxProcs
    /\ Next_process

NextProgramKill ==
    \/ Add_process
    \/ Current_process_pc
    \/ Next_process_again
    \/ Update_current_process_pc
    \/ Kill_current_process

SpecProgramKill == InitProgram /\ [][NextProgramKill]_vars

-----------------------------------------------------------------------------
(* An assembler loading a program into a fresh core.                       *)

\* Largest number of instructions of a loaded program.
MaxLines == 2

\* The lines of the programs: the instructions of the doctests of
\* assembler.py (MOV 0, 1; JMP 3; NOP; DAT 1; DAT 3, 1), an instruction
\* with an addressing mode and one with a negative operand.
Lines ==
    { << <<MOV, "MOV">>, <<INT, "0">>, <<COMMA, ",">>, <<INT, "1">>,
         <<NEWLINE, "\n">> >>,
      << <<JMP, "JMP">>, <<INT, "3">>, <<NEWLINE, "\n">> >>,
      << <<NOP, "NOP">>, <<NEWLINE, "\n">> >>,
      << <<DAT, "DAT">>, <<INT, "1">>, <<NEWLINE, "\n">> >>,
      << <<DAT, "DAT">>, <<INT, "3">>, <<COMMA, ",">>, <<INT, "1">>,
         <<NEWLINE, "\n">> >>,
      << <<MOV, "MOV">>, <<IMMEDIATE, "#">>, <<INT, "0">>, <<COMMA, ",">>,
         <<INT, "1">>, <<NEWLINE, "\n">> >>,
      << <<JMP, "JMP">>, <<MINUS, "-">>, <<INT, "1">>, <<NEWLINE, "\n">> >> }

\* The lines of a program one after the other.
RECURSIVE Concat(_)
Concat(lines) ==
    IF Len(lines) = 0 THEN <<>> ELSE Head(lines) \o Concat(Tail(lines))

\* The token lists: programs of at most n lines, ended by EOF.
TokenLists(n) ==
    { Concat(lines) \o << <<EOF, "">> >> :
        lines \in UNION { [1..k -> Lines] : k \in 0..n } }

\* Base addresses given to assemble.
LoadAddrs == -1..(MaxSize + 1)

\* The categories of the tokens of a list.
Categories(tokenlist) == [i \in 1..Len(tokenlist) |-> tokenlist[i][1]]

\* The state after Core(size).
InitLoad ==
    /\ size_arg \in 1..MaxSize
    /\ core = Core_init(size_arg)
    /\ pre = core
    /\ result = CallRecord("__init__", 0, <<size_arg>>, OkNone(core))
    /\ nops = 0
    /\ heap = NoHeap
    /\ lexer = Lexer_init
    /\ Program_pc = <<>>
    /\ programs = <<>>
    /\ program = NoProgram

Assemble ==
    \E tokenlist \in TokenLists(MaxLines), address \in LoadAddrs :
        /\ nops = 0
        /\ Call("assemble", address, Categories(tokenlist),
                assemble(tokenlist, address, core))
        /\ nops' = 1

NextLoad == Assemble

SpecLoad == InitLoad /\ [][NextLoad]_vars

-----------------------------------------------------------------------------
(* Field writes and whole-instruction copies on a loaded core, the list    *)
(* objects of the core kept beside the words the readers see.              *)

\* The instructions under execution: whole-instruction copies.
CellWords ==
    { <<MOV, DIRECT, 0, DIRECT, 1>>,
      <<MOV, DIRECT, 1, DIRECT, -1>>,
      <<MOV, DIRECT, 1, DIRECT, 1>> }

\* The words around them: words left as Core.__init__ made them, and data.
CellData == { NullWord, <<DAT, IMMEDIATE, 1, IMMEDIATE, 2>> }

\* Values the field writers are called with.  The mode written is DIRECT,
\* so that every MOV of the core stays a whole-instruction copy.
CellOpcodes == {JMP}
CellModes == {DIRECT}
CellVals == {-1}

\* The put_instr calls that load the words of c other than the empty
\* ones, from address on.
RECURSIVE LoadLists(_, _, _)
LoadLists(h, c, address) ==
    IF address >= Len(c)
    THEN h
    ELSE LoadLists(IF c[address + 1] = NullWord
                   THEN h
                   ELSE put_instr_lists(h, c[address + 1], address),
                   c, address + 1)

\* The record kept of a call, with the source and the destination of the
\* last whole-instruction copy made so far.
CellRecord(op, address, arg, o, copied) ==
    [op |-> op, address |-> address, arg |-> arg,
     exc |-> o.exc, hasret |-> o.hasret, ret |-> o.ret, copied |-> copied]

\* A call with outcome o that leaves the list objects h.
CellCall(op, address, arg, o, h, copied) ==
    /\ Counted
    /\ core' = o.core
    /\ pre' = core
    /\ heap' = h
    /\ result' = CellRecord(op, address, arg, o, copied)
    /\ UNCHANGED <<size_arg, programs, program, lexer, Program_pc>>

\* The state after Core(size) and the put_instr calls that load one MOV and
\* data.
InitCells ==
    /\ size_arg \in 1..MaxSize
    /\ \E p \in 0..(size_arg - 1), w \in CellWords,
          data \in [1..size_arg -> CellData] :
            core = [i \in 1..size_arg |-> IF i = p + 1 THEN w ELSE data[i]]
    /\ pre = core
    /\ heap = LoadLists(Core_init_lists(size_arg), core, 0)
    /\ result = CellRecord("put_instr", 0, <<>>, OkNone(core), <<>>)
    /\ nops = 0
    /\ programs = <<>>
    /\ program = NoProgram
    /\ lexer = Lexer_init
    /\ Program_pc = <<>>

Cell_execute ==
    \E address \in 0..(Len(core) - 1) :
        CellCall("execute", address, <<>>, execute(core, address),
                 execute_lists(heap, address),
                 IF CopiesInstr(core, address)
                 THEN <<CopySource(core, address), CopyDest(core, address)>>
                 ELSE result.copied)

Cell_put_opcode ==
    \E address \in 0..(Len(core) - 1), v \in CellOpcodes :
        CellCall("put_opcode", address, <<v>>, put_opcode(core, v, address),
                 put_field_lists(heap, 1, v, address), result.copied)

Cell_put_a_field_mode ==
    \E address \in 0..(Len(core) - 1), v \in CellModes :
        CellCall("put_a_field_mode", address, <<v>>,
                 put_a_field_mode(core, v, address),
                 put_field_lists(heap, 2, v, address), result.copied)

Cell_put_a_field_val ==
    \E address \in 0..(Len(core) - 1), v \in CellVals :
        CellCall("put_a_field_val", address, <<v>>,
                 put_a_field_val(core, v, address),
                 put_field_lists(heap, 3, v, address), result.copied)

Cell_put_b_field_mode ==
    \E address \in 0..(Len(core) - 1), v \in CellModes :
        CellCall("put_b_field_mode", address, <<v>>,
                 put_b_field_mode(core, v, address),
                 put_field_lists(heap, 4, v, address), result.copied)

Cell_put_b_field_val ==
    \E address \in 0..(Len(core) - 1), v \in CellVals :
        CellCall("put_b_field_val", address, <<v>>,
                 put_b_field_val(core, v, address),
                 put_field_lists(heap, 5, v, address), result.copied)

NextCells ==
    \/ Cell_execute
    \/ Cell_put_opcode
    \/ Cell_put_a_field_mode
    \/ Cell_put_a_field_val
    \/ Cell_put_b_field_mode
    \/ Cell_put_b_field_val

SpecCells == InitCells /\ [][NextCells]_vars

-----------------------------------------------------------------------------
(* A Lexer tokenizing a file, and a second file after it.                  *)

\* Largest number of lines of a text.
MaxTextLines == 2

\* The lines of the texts: an opcode, an empty line, a line of white space,
\* an instruction in lower case with white space around it and a negative
\* operand, an instruction with two operands, a character that starts no
\* token, and letters that are no opcode.
LexLines ==
    { <<"N", "O", "P">>,
      <<>>,
      <<" ">>,
      <<" ", "j", "m", "p", " ", "-", "1", " ">>,
      <<"D", "A", "T", " ", "#", "3", ",", "1", "0">>,
      <<"?">>,
      <<"N", "O">> }

\* The lines of a text one after the other, each ended by a newline.
RECURSIVE Text(_)
Text(lines) ==
    IF Len(lines) = 0
    THEN <<>>
    ELSE Head(lines) \o <<"\n">> \o Text(Tail(lines))

\* The texts of at most n lines, with and without the newline that ends
\* the last line.
Texts(n) ==
    LET ended == { Text(lines) :
                    lines \in UNION { [1..k -> LexLines] : k \in 0..n } }
    IN  ended \cup { SubSeq(t, 1, Len(t) - 1) : t \in ended \ {<<>>} }

\* The record kept of a tokenize call: the text, the outcome and the Lexer
\* as it was before.
LexRecord(text, o, lx) ==
    [op |-> "tokenize", address |-> 0, arg |-> text,
     exc |-> o.exc, hasret |-> o.hasret, ret |-> o.ret, was |-> lx]

LexCall(text) ==
    LET o == tokenize(lexer, text)
    IN  /\ lexer' = o.lexer
        /\ result' = LexRecord(text, o, lexer)
        /\ UNCHANGED <<core, pre, size_arg, nops, programs, program, heap,
                       Program_pc>>

\* The state after Lexer().
InitLex ==
    /\ size_arg = 0
    /\ core = Core_init(size_arg)
    /\ pre = core
    /\ nops = 0
    /\ heap = NoHeap
    /\ programs = <<>>
    /\ program = NoProgram
    /\ Program_pc = <<>>
    /\ lexer = Lexer_init
    /\ result = [op |-> "Lexer", address |-> 0, arg |-> <<>>,
                 exc |-> "none", hasret |-> FALSE, ret |-> <<>>,
                 was |-> Lexer_init]

\* The first tokenize call on the Lexer.
Tokenize ==
    /\ result.op = "Lexer"
    /\ \E text \in Texts(MaxTextLines) : LexCall(text)

\* A second tokenize call on the same Lexer.
Tokenize_again ==
    /\ result.op = "tokenize"
    /\ result.was = Lexer_init
    /\ \E text \in Texts(MaxTextLines) : LexCall(text)

NextLex ==
    \/ Tokenize
    \/ Tokenize_again

SpecLex == InitLex /\ [][NextLex]_vars

-----------------------------------------------------------------------------
(* Process and Program objects of process.py and Program.py.               *)

\* The record kept of a call: the list Program.pc as it was before.
PcRecord(op, arg, o, list) ==
    [op |-> op, address |-> 0, arg |-> arg,
     exc |-> o.exc, hasret |-> o.hasret, ret |-> o.ret, was |-> list]

PcCall(op, arg, o) ==
    /\ Program_pc' = o.pc
    /\ result' = PcRecord(op, arg, o, Program_pc)
    /\ UNCHANGED <<core, pre, size_arg, nops, programs, program, heap, lexer>>

\* The state after the two modules are imported; size_arg is the CORESIZE
\* of the core the calls are given.
InitPc ==
    /\ size_arg \in 1..MaxSize
    /\ core = Core_init(size_arg)
    /\ pre = core
    /\ nops = 0
    /\ heap = NoHeap
    /\ programs = <<>>
    /\ program = NoProgram
    /\ lexer = Lexer_init
    /\ Program_pc = <<>>
    /\ result = PcRecord("import", <<>>, PcNone(Program_pc), Program_pc)

\* Program(core, index)
Program_new ==
    \E index \in -1..(size_arg - 1) :
        /\ Len(Program_pc) < MaxProcs
        /\ PcCall("Program", <<index>>, Program_py_init(Program_pc, index))

\* Process(core, address)
Process_new ==
    \E address \in -1..(size_arg + 1) :
        PcCall("Process", <<address>>,
               Process_init(Program_pc, size_arg, address))

\* set_pc(index, address, core) on a Process object; as Process.__init__
\* never completes, the object is one its constructor left.
Set_pc ==
    \E index \in -1..1, address \in -1..(size_arg + 1) :
        PcCall("set_pc", <<index, address>>,
               set_pc(Program_pc, index, address, size_arg))

NextPc ==
    \/ Program_new
    \/ Process_new
    \/ Set_pc

SpecPc == InitPc /\ [][NextPc]_vars

-----------------------------------------------------------------------------
(* Vocabulary of the properties.                                           *)

ReadOps ==
    {"opcode", "a_field_mode", "a_field_val", "b_field_mode", "b_field_val"}

WriteOps ==
    {"put_instr", "put_opcode", "put_a_field_mode", "put_a_field_val",
     "put_b_field_mode", "put_b_field_val"}

\* The component of a word a reader returns.
ReadComponent(op) ==
    CASE op = "opcode" -> 1
      [] op = "a_field_mode" -> 2
      [] op = "a_field_val" -> 3
      [] op = "b_field_mode" -> 4
      [] op = "b_field_val" -> 5

\* The components of a word a writer replaces.
WriteComponents(op) ==
    CASE op = "put_instr" -> 1..5
      [] op = "put_opcode" -> {1}
      [] op = "put_a_field_mode" -> {2}
      [] op = "put_a_field_val" -> {3}
      [] op = "put_b_field_mode" -> {4}
      [] op = "put_b_field_val" -> {5}

\* new is old with the components writer op replaces, in the word at
\* address x, set to the call's arguments, and nothing else changed.
WriteEffect(old, new, op, arg, x) ==
    /\ Len(new) = Len(old)
    /\ \A i \in 1..Len(old) : \A j \in 1..5 :
        new[i][j] = IF i = x + 1 /\ j \in WriteComponents(op)
                    THEN (IF op = "put_instr" THEN arg[j] ELSE arg[1])
                    ELSE old[i][j]

\* new is old but for the word at address x.
SameBut(old, new, x) ==
    /\ Len(new) = Len(old)
    /\ \A i \in 1..Len(old) : i # x + 1 => new[i] = old[i]

\* The last call was execute(p), on an address of the core.
ExecutedAt(p) ==
    /\ result.op = "execute"
    /\ result.address = p
    /\ 0 <= p /\ p < Len(pre)

\* The last call was execute(p) and the word at p was opcode op with the
\* given A-field and B-field modes.
Executed(p, op, a_mode, b_mode) ==
    /\ ExecutedAt(p)
    /\ pre[p + 1][1] = op
    /\ pre[p + 1][2] = a_mode
    /\ pre[p + 1][4] = b_mode

\* The last call returned v.
Returned(v) == result.exc = "none" /\ result.hasret /\ result.ret = v

\* Address x + d of the core the last call acted on.
Wrapped(x, d) == (x + d) % Len(pre)

-----------------------------------------------------------------------------
(* C1.  Core reads and writes and addresses outside [0, size).             *)

-----------------------------------------------------------------------------
(* C2.  The core size is fixed at construction.                            *)

\* C2: in every reachable state the core has as many words as before the
\* last call (put_instr, a field writer or execute), and as many as it was
\* constructed with.
C2_CoresizeFixed ==
    /\ coresize(core) = coresize(pre)
    /\ size_arg >= 0 => coresize(core) = size_arg

\* C2 witness: an execute that changed a word of a core of the largest size.
C2_Witness ==
    /\ result.op = "execute"
    /\ result.exc = "none"
    /\ core # pre
    /\ coresize(core) = MaxSize

-----------------------------------------------------------------------------
(* C3.  Construction with a size that is not positive.                     *)

\* C3 as claimed: constructing the core with size 0 or a negative size
\* fails, and no core with zero words exists.
C3_NonPositiveSizeRejected ==
    (size_arg <= 0 \/ coresize(core) = 0) =>
        (result.op = "__init__" /\ result.exc # "none")

-----------------------------------------------------------------------------
(* C4.  MOV with a direct A-field and a direct B-field.                    *)

\* C4 as claimed: MOV $a, $b executed at p makes the word at (p+b) mod size
\* the word that was at (p+a) mod size, leaves the word at p unchanged,
\* leaves every other word unchanged and returns (p+1) mod size.
C4_MovDirectDirectKeepsOwnWord ==
    LET p == result.address
    IN  Executed(p, MOV, DIRECT, DIRECT) =>
            LET src == Wrapped(p, pre[p + 1][3])
                dst == Wrapped(p, pre[p + 1][5])
            IN  /\ Returned(Wrapped(p, 1))
                /\ core[dst + 1] = pre[src + 1]
                /\ core[p + 1] = pre[p + 1]
                /\ SameBut(pre, core, dst)

\* C4 as amended: MOV $a, $b executed at p makes the word at (p+b) mod size
\* the word that was at (p+a) mod size, leaves every other word unchanged
\* (the word at p included, unless p is itself the destination) and returns
\* (p+1) mod size.
C4_MovDirectDirect ==
    LET p == result.address
    IN  Executed(p, MOV, DIRECT, DIRECT) =>
            LET src == Wrapped(p, pre[p + 1][3])
                dst == Wrapped(p, pre[p + 1][5])
            IN  /\ Returned(Wrapped(p, 1))
                /\ core[dst + 1] = pre[src + 1]
                /\ SameBut(pre, core, dst)
                /\ dst # p => core[p + 1] = pre[p + 1]

\* C4 witness: a MOV $a, $b at the last address of a core of the largest
\* size that copied a different word over another word and returned 0.
C4_Witness ==
    LET p == result.address
    IN  /\ Executed(p, MOV, DIRECT, DIRECT)
        /\ Len(pre) = MaxSize
        /\ p = Len(pre) - 1
        /\ Wrapped(p, pre[p + 1][5]) # p
        /\ core # pre
        /\ Returned(0)

-----------------------------------------------------------------------------
(* C5.  MOV with an immediate A-field and an immediate B-field.            *)

\* C5: MOV #a, #b executed at p sets the B-field value of the word at p to
\* a, changes no other component of any word and returns the next
\* sequential address.
C5_MovImmediateImmediate ==
    LET p == result.address
    IN  Executed(p, MOV, IMMEDIATE, IMMEDIATE) =>
            /\ Returned(Wrapped(p, 1))
            /\ WriteEffect(pre, core, "put_b_field_val", <<pre[p + 1][3]>>, p)

\* C5 witness: a MOV #a, #b with a # b was executed and its own B-field
\* value is now a.
C5_Witness ==
    LET p == result.address
    IN  /\ Executed(p, MOV, IMMEDIATE, IMMEDIATE)
        /\ pre[p + 1][3] # pre[p + 1][5]
        /\ core[p + 1][5] = pre[p + 1][3]
        /\ Len(pre) = MaxSize

-----------------------------------------------------------------------------
(* C6.  MOV with an immediate A-field and a B-field that is not immediate. *)

\* C6 as claimed: MOV #a, B with B direct or indirect writes a into the
\* B-field value of the word at B's resolved address ((p+b) mod size for a
\* direct B; for an indirect B, q plus the B-field value of the word at
\* q = (p+b) mod size) and changes nothing else.
C6_MovImmediateToResolvedB ==
    LET p == result.address
    IN  (ExecutedAt(p) /\ pre[p + 1][1] = MOV /\ pre[p + 1][2] = IMMEDIATE
            /\ pre[p + 1][4] \in {DIRECT, B_INDIRECT}) =>
            LET q == Wrapped(p, pre[p + 1][5])
                dst == IF pre[p + 1][4] = DIRECT
                       THEN q
                       ELSE Wrapped(q, pre[q + 1][5])
            IN  /\ result.exc = "none"
                /\ WriteEffect(pre, core, "put_b_field_val", <<pre[p + 1][3]>>, dst)

-----------------------------------------------------------------------------
(* C7.  MOV with an A-field that is not immediate and an immediate B-field. *)

\* C7 as claimed: MOV A, #b executed at p, with A direct or indirect, copies
\* the B-field value of the word at A's resolved address ((p+a) mod size for
\* a direct A; for an indirect A, q plus the A-field value of the word at
\* q = (p+a) mod size) into the B-field value of the word at p.
C7_MovResolvedAToImmediateB ==
    LET p == result.address
    IN  (ExecutedAt(p) /\ pre[p + 1][1] = MOV /\ pre[p + 1][4] = IMMEDIATE
            /\ pre[p + 1][2] \in {DIRECT, A_INDIRECT}) =>
            LET q == Wrapped(p, pre[p + 1][3])
                src == IF pre[p + 1][2] = DIRECT
                       THEN q
                       ELSE Wrapped(q, pre[q + 1][3])
            IN  /\ result.exc = "none"
                /\ core[p + 1][5] = pre[src + 1][5]

-----------------------------------------------------------------------------
(* C8.  MOV with a direct A-field and an indirect B-field.                 *)

\* C8 as claimed: MOV $a, @b executed at p copies the word at (p+a) mod size
\* into the word at (q + B-field value of the word at q) mod size, where
\* q = (p+b) mod size, and the resolution does not modify the word at q.
C8_MovDirectIndirect ==
    LET p == result.address
    IN  Executed(p, MOV, DIRECT, B_INDIRECT) =>
            LET src == Wrapped(p, pre[p + 1][3])
                q   == Wrapped(p, pre[p + 1][5])
                dst == Wrapped(q, pre[q + 1][5])
            IN  /\ result.exc = "none"
                /\ core[dst + 1] = pre[src + 1]
                /\ q # dst => core[q + 1] = pre[q + 1]

-----------------------------------------------------------------------------
(* C9.  MOV with an indirect A-field and a direct B-field.                 *)

\* C9: MOV @a, $b executed at p copies the word at (q + A-field value of
\* the word at q) mod size, where q = (p+a) mod size, into the word at
\* (p+b) mod size, also when that is the word at p itself.
C9_MovIndirectDirect ==
    LET p == result.address
    IN  (ExecutedAt(p) /\ pre[p + 1][1] = MOV /\ pre[p + 1][4] = DIRECT
            /\ pre[p + 1][2] \in {A_INDIRECT, B_INDIRECT}) =>
            LET q   == Wrapped(p, pre[p + 1][3])
                src == Wrapped(q, pre[q + 1][3])
                dst == Wrapped(p, pre[p + 1][5])
            IN  /\ result.exc = "none"
                /\ core[dst + 1] = pre[src + 1]

\* C9 witness: a MOV @a, 0 whose pointer word and source word are two other
\* words was executed, and the source word, a DAT, is now at the MOV's own
\* address (the doctest's MOV @-2, 0).
C9_Witness ==
    LET p == result.address
    IN  /\ Executed(p, MOV, B_INDIRECT, DIRECT)
        /\ LET q   == Wrapped(p, pre[p + 1][3])
               src == Wrapped(q, pre[q + 1][3])
           IN  /\ Wrapped(p, pre[p + 1][5]) = p
               /\ q # p /\ src # p /\ src # q
               /\ pre[src + 1][1] = DAT
               /\ core[p + 1] = pre[src + 1]
               /\ result.exc = "none"

-----------------------------------------------------------------------------
(* C10.  JMP with a direct A-field.                                        *)

\* C10 as claimed: JMP $a executed at p returns (p+a) mod size, whatever
\* the word at that address holds.
C10_JmpDirectReturnsTarget ==
    LET p == result.address
    IN  (ExecutedAt(p) /\ pre[p + 1][1] = JMP /\ pre[p + 1][2] = DIRECT) =>
            Returned(Wrapped(p, pre[p + 1][3]))

-----------------------------------------------------------------------------
(* C11.  JMP with an immediate A-field.                                    *)

\* C11: JMP #v executed at p returns v itself, not an address relative to
\* p, and leaves every word of the core unchanged.
C11_JmpImmediateAbsolute ==
    LET p == result.address
    IN  (ExecutedAt(p) /\ pre[p + 1][1] = JMP /\ pre[p + 1][2] = IMMEDIATE) =>
            /\ Returned(pre[p + 1][3])
            /\ core = pre

\* C11 witness: a JMP #v at an address p > 0 with v # 0 was executed and
\* returned v, which is not the address v words from p.
C11_Witness ==
    LET p == result.address
    IN  /\ ExecutedAt(p)
        /\ pre[p + 1][1] = JMP /\ pre[p + 1][2] = IMMEDIATE
        /\ p > 0
        /\ pre[p + 1][3] # 0
        /\ Returned(pre[p + 1][3])
        /\ pre[p + 1][3] # Wrapped(p, pre[p + 1][3])

-----------------------------------------------------------------------------
(* C12.  Range of the program counters execute returns.                    *)

\* C12 as claimed: every program counter execute returns, for an
\* instruction at an address of the core, is an address of the core.
C12_ReturnedPcInRange ==
    (ExecutedAt(result.address) /\ result.exc = "none" /\ result.hasret) =>
        (0 <= result.ret /\ result.ret < Len(pre))

-----------------------------------------------------------------------------
(* C13.  Every executable opcode yields a next program counter.            *)

\* The opcodes other than DAT.
ExecutableOpcodes == (MOV..NOP)

\* C13 as claimed: execute of a word whose opcode is neither DAT nor NULL
\* raises nothing and returns a next address.
C13_ExecutableYieldsNextPc ==
    LET p == result.address
    IN  (ExecutedAt(p) /\ pre[p + 1][1] \in ExecutableOpcodes) =>
            (result.exc = "none" /\ result.hasret)

-----------------------------------------------------------------------------
(* C14.  NOP.                                                              *)

\* C14: NOP executed at p changes no word of the core and returns 0 when p
\* is the last address and p + 1 otherwise.
C14_NopReturnsNext ==
    LET p == result.address
    IN  (ExecutedAt(p) /\ pre[p + 1][1] = NOP) =>
            /\ core = pre
            /\ Returned(IF p = Len(pre) - 1 THEN 0 ELSE p + 1)

\* C14 witness: a NOP at the last address of a core of the largest size was
\* executed and returned 0.
C14_Witness ==
    LET p == result.address
    IN  /\ ExecutedAt(p)
        /\ pre[p + 1][1] = NOP
        /\ Len(pre) = MaxSize
        /\ p = Len(pre) - 1
        /\ Returned(0)
        /\ core = pre

-----------------------------------------------------------------------------
(* C15.  Execution of DAT and of an empty word, and the scheduler.         *)

\* The program counter of the current process of a registered program.
CurrentPc(entry) == entry.program.processes[entry.program.index + 1]

\* The word of core c the current process of a registered program is at.
CurrentWord(c, entry) == c[CurrentPc(entry) + 1]

\* The opcodes of the words that cannot be executed.
IllegalOpcodes == {DAT, NULL}

\* C15 as claimed: execute of a DAT or of an empty word raises the
\* illegal-execution error (RuntimeError) and leaves the core unchanged;
\* and a run in which the current process of a program is at such a word
\* is not aborted, removes that process from its program and leaves every
\* other program registered.
C15_IllegalExecutionKillsThreadOnly ==
    /\ LET p == result.address
       IN  (ExecutedAt(p) /\ pre[p + 1][1] \in IllegalOpcodes) =>
                (result.exc = "RuntimeError" /\ core = pre)
    /\ result.op = "run" =>
        \A i \in 1..Len(result.was) :
            CurrentWord(pre, result.was[i])[1] \in IllegalOpcodes =>
                /\ result.exc = "none"
                /\ \A j \in 1..Len(programs) :
                        programs[j].key = result.was[i].key =>
                            Len(programs[j].program.processes)
                                < Len(result.was[i].program.processes)
                /\ \A k \in 1..Len(result.was) :
                        (k # i /\ CurrentWord(pre, result.was[k])[1]
                                    \notin IllegalOpcodes) =>
                            \E j \in 1..Len(programs) :
                                programs[j].key = result.was[k].key

-----------------------------------------------------------------------------
(* C16.  No registered program has an empty process list.                  *)

\* C16 as claimed: after a run no registered program has an empty process
\* list, and a program whose only process was at a DAT or an empty word is
\* no longer registered.
C16_EmptiedProgramRemoved ==
    result.op = "run" =>
        /\ \A j \in 1..Len(programs) : Len(programs[j].program.processes) > 0
        /\ \A i \in 1..Len(result.was) :
            (/\ Len(result.was[i].program.processes) = 1
             /\ CurrentWord(pre, result.was[i])[1] \in IllegalOpcodes) =>
                \A j \in 1..Len(programs) : programs[j].key # result.was[i].key

-----------------------------------------------------------------------------
(* C17.  run ends when fewer than two programs are alive.                  *)

\* The number of registered programs that have a process.
LivePrograms(d) ==
    Cardinality({ j \in 1..Len(d) : Len(d[j].program.processes) > 0 })

\* C17 as claimed: when run has ended, it has returned and fewer than two
\* programs have a process.
C17_RunEndsWithFewerThanTwo ==
    result.op = "run" =>
        (result.exc = "none" /\ LivePrograms(programs) < 2)

-----------------------------------------------------------------------------
(* C18.  Round robin between two programs of one process each.             *)

\* C18 as claimed: a run with two programs of one process each, both at a
\* word that executes, raises nothing and has advanced each of them: the
\* program counter of each is the address execute returns for it.
C18_RoundRobinAdvancesBoth ==
    (/\ result.op = "run"
     /\ Len(result.was) = 2
     /\ \A i \in 1..2 :
            /\ Len(result.was[i].program.processes) = 1
            /\ CurrentWord(pre, result.was[i])[1] \in {NOP, JMP}) =>
        /\ result.exc = "none"
        /\ Len(programs) = 2
        /\ \A i \in 1..2 :
            /\ programs[i].key = result.was[i].key
            /\ programs[i].program.processes =
                    <<execute(pre, CurrentPc(result.was[i])).ret>>

-----------------------------------------------------------------------------
(* C19.  Addresses a loaded program is written to.                         *)

\* The opcodes of the instructions of a token list, in order.
LoadedOpcodes(categories) == SelectSeq(categories, LAMBDA t : t \in DAT..NOP)

\* C19 as claimed: assemble of a program of n instructions, n at most the
\* core size, at a base address b of a fresh core raises nothing, leaves
\* the opcode of the k-th instruction (k = 0..n-1) in the word at
\* (b + k) mod size and leaves every other word empty.
C19_LoadWritesConsecutiveWrapped ==
    LET b == result.address
        size == Len(pre)
        ops == LoadedOpcodes(result.arg)
        n == Len(ops)
    IN  (result.op = "assemble" /\ 0 <= b /\ b < size /\ n <= size) =>
            /\ result.exc = "none"
            /\ Len(core) = size
            /\ \A k \in 0..(n - 1) : core[((b + k) % size) + 1][1] = ops[k + 1]
            /\ \A x \in 0..(size - 1) :
                    (\A k \in 0..(n - 1) : x # (b + k) % size) =>
                        core[x + 1] = NullWord

-----------------------------------------------------------------------------
(* C20.  Program: add_process, next_process, update_current_process_pc.    *)

\* The Program after k calls of next_process.
RECURSIVE AfterNext(_, _)
AfterNext(prog, k) ==
    IF k = 0 THEN prog ELSE AfterNext(next_process(prog).program, k - 1)

\* C20: add_process appends the program counter and leaves the index;
\* update_current_process_pc replaces the entry at the index and nothing
\* else; and from every state of a Program of n processes, the k-th of n
\* successive next_process calls moves the index to the k-th entry after
\* it in list order, wrapping from the last to the first, so that the n
\* calls visit every process once and leave the Program as it was.
C20_ProgramCursor ==
    LET n == Len(program.processes)
    IN  /\ result.op = "add_process" =>
            /\ result.exc = "none"
            /\ program.processes = Append(result.was.processes, result.arg[1])
            /\ program.index = result.was.index
        /\ result.op = "update_current_process_pc" =>
            /\ result.exc = "none"
            /\ program.processes =
                    [result.was.processes EXCEPT ![result.was.index + 1] = result.arg[1]]
            /\ program.index = result.was.index
        /\ result.op \in {"Program", "add_process", "next_process",
                          "update_current_process_pc", "current_process_pc"} =>
            /\ n >= 1
            /\ \A k \in 1..n :
                    /\ next_process(AfterNext(program, k - 1)).exc = "none"
                    /\ AfterNext(program, k).index = (program.index + k) % n
                    /\ AfterNext(program, k).processes = program.processes
            /\ { AfterNext(program, k).index : k \in 1..n } = 0..(n - 1)
            /\ AfterNext(program, n) = program

\* C20 witness: next_process was called on a Program of the largest number
\* of processes, the last of them at another address than the first, with
\* the index at the last, and the index is now at the first.
C20_Witness ==
    /\ result.op = "next_process"
    /\ Len(program.processes) = MaxProcs
    /\ result.was.index = MaxProcs - 1
    /\ program.index = 0
    /\ program.processes[MaxProcs] # program.processes[1]

-----------------------------------------------------------------------------
(* C21.  Program.kill_current_process.                                     *)

\* A list without its entry at Python index i.
Without(list, i) ==
    [j \in 1..(Len(list) - 1) |-> IF j < i + 1 THEN list[j] ELSE list[j + 1]]

\* The Program before the last call had a process at its index.
WasOnProcess ==
    /\ 0 <= result.was.index
    /\ result.was.index < Len(result.was.processes)

\* C21 as claimed: kill_current_process on a Program of at least two
\* processes removes the process at the index and no other, and leaves the
\* index on the process that followed it, the first process when the
\* killed one was the last; current_process_pc then returns the program
\* counter of that process.
C21_KillMovesToFollowing ==
    (/\ result.op = "kill_current_process"
     /\ Len(result.was.processes) >= 2
     /\ WasOnProcess) =>
        LET i == result.was.index
            n == Len(result.was.processes)
            following == result.was.processes[((i + 1) % n) + 1]
        IN  /\ result.exc = "none"
            /\ program.processes = Without(result.was.processes, i)
            /\ 0 <= program.index /\ program.index < n - 1
            /\ program.index = (IF i = n - 1 THEN 0 ELSE i)
            /\ current_process_pc(program).exc = "none"
            /\ current_process_pc(program).ret = following

-----------------------------------------------------------------------------
(* C22.  ADD.                                                              *)

\* C22 as claimed: ADD #a, $b executed at p replaces the B-field value v
\* of the word at (p+b) mod size by v + a, changes nothing else and
\* returns (p+1) mod size.
C22_AddImmediateDirect ==
    LET p == result.address
    IN  Executed(p, ADD, IMMEDIATE, DIRECT) =>
            LET dst == Wrapped(p, pre[p + 1][5])
            IN  /\ Returned(Wrapped(p, 1))
                /\ WriteEffect(pre, core, "put_b_field_val",
                               <<pre[dst + 1][5] + pre[p + 1][3]>>, dst)

-----------------------------------------------------------------------------
(* C23.  DJN on a B-field value of 1.                                      *)

\* C23 as claimed: DJN A, $b executed at p, when the B-field value of the
\* word at (p+b) mod size is 1, leaves that B-field value at 0, changes
\* nothing else and returns the next sequential address.
C23_DjnFallsThroughAtZero ==
    LET p == result.address
    IN  Executed(p, DJN, DIRECT, DIRECT) =>
            LET dst == Wrapped(p, pre[p + 1][5])
            IN  pre[dst + 1][5] = 1 =>
                    /\ Returned(Wrapped(p, 1))
                    /\ WriteEffect(pre, core, "put_b_field_val", <<0>>, dst)

-----------------------------------------------------------------------------
(* C24.  SPL executed by the only process of a program.                    *)

\* C24 as claimed: after a run in which the only process of a program was
\* at an SPL $a, the program has two processes: the next sequential
\* address, then the address (pc + a) mod size.
C24_SplAppendsTarget ==
    result.op = "run" =>
        \A i \in 1..Len(result.was) :
            (/\ Len(result.was[i].program.processes) = 1
             /\ CurrentWord(pre, result.was[i])[1] = SPL) =>
                LET pc == CurrentPc(result.was[i])
                IN  /\ result.exc = "none"
                    /\ \E j \in 1..Len(programs) :
                        /\ programs[j].key = result.was[i].key
                        /\ programs[j].program.processes =
                                <<Wrapped(pc, 1), Wrapped(pc, pre[pc + 1][3])>>

-----------------------------------------------------------------------------
(* C25.  DIV and MOD by zero.                                              *)

\* The exceptions of execute that Interpreter.run answers by killing the
\* current process (`except RuntimeError`).
KillErrors == {"RuntimeError"}

\* C25 as claimed: execute of DIV #0, B or MOD #0, B ends with the error
\* that kills the executing process and leaves the core unchanged.
C25_DivideByZeroKills ==
    LET p == result.address
    IN  (/\ ExecutedAt(p)
         /\ pre[p + 1][1] \in {DIV, MOD}
         /\ pre[p + 1][2] = IMMEDIATE
         /\ pre[p + 1][3] = 0) =>
            /\ result.exc \in KillErrors
            /\ core = pre

-----------------------------------------------------------------------------
(* C26.  Indirect modes with predecrement.                                 *)

\* C26 as claimed: MOV {a, $b or MOV <a, $b executed at p first decrements
\* by one the A-field value ({) or B-field value (<) of the pointer word at
\* q = (p+a) mod size, then copies the word at q plus the decremented
\* value to (p+b) mod size; the decrement stays in the core.
C26_PredecrementMutatesPointer ==
    LET p == result.address
    IN  (/\ ExecutedAt(p)
         /\ pre[p + 1][1] = MOV
         /\ pre[p + 1][2] \in {A_INDIRECT_PRE, B_INDIRECT_PRE}
         /\ pre[p + 1][4] = DIRECT) =>
            LET f == IF pre[p + 1][2] = A_INDIRECT_PRE THEN 3 ELSE 5
                q == Wrapped(p, pre[p + 1][3])
                decremented == pre[q + 1][f] - 1
                mid == [pre EXCEPT ![q + 1][f] = decremented]
                src == Wrapped(q, decremented)
                dst == Wrapped(p, pre[p + 1][5])
            IN  /\ result.exc = "none"
                /\ core = [mid EXCEPT ![dst + 1] = mid[src + 1]]

-----------------------------------------------------------------------------
(* C27.  Addressing modes an opcode does not recognise.                    *)

\* The addressing mode categories of AssemblyToken.
AddressModes == IMMEDIATE..B_INDIRECT_POST

\* The word is a JMP whose A-field mode __execute_jmp has no branch for, or
\* a MOV whose A-field mode is no addressing mode.
UnrecognisedMode(word) ==
    \/ word[1] = JMP /\ word[2] \notin {IMMEDIATE, DIRECT}
    \/ word[1] = MOV /\ word[2] \notin AddressModes

\* C27 as claimed: execute of an instruction with a mode its opcode does
\* not recognise raises an error, and not one of those run answers by
\* killing the process.
C27_UnrecognisedModeIsHardError ==
    LET p == result.address
    IN  (ExecutedAt(p) /\ UnrecognisedMode(pre[p + 1])) =>
            /\ result.exc # "none"
            /\ result.exc \notin KillErrors

-----------------------------------------------------------------------------
(* C28.  run executes the programs until none has a process.               *)

\* C28 as claimed: run returns, and when it has no registered program has
\* a process.
C28_RunLeavesNoProcess ==
    result.op = "run" =>
        /\ result.exc = "none"
        /\ LivePrograms(programs) = 0

-----------------------------------------------------------------------------
(* C29.  Assembling DAT.                                                   *)

\* C29 as claimed: assemble of the line DAT 1 at base address b leaves
\* <<DAT, NULL, NULL, DIRECT, 1>> in the word at b, assemble of the line
\* DAT 3, 1 leaves <<DAT, DIRECT, 3, DIRECT, 1>> there, and no other word
\* changes.
C29_DatOperands ==
    LET b == result.address
    IN  (/\ result.op = "assemble"
         /\ 0 <= b /\ b < Len(pre)
         /\ result.arg \in { <<DAT, INT, NEWLINE, EOF>>,
                             <<DAT, INT, COMMA, INT, NEWLINE, EOF>> }) =>
            /\ result.exc = "none"
            /\ SameBut(pre, core, b)
            /\ core[b + 1][1] = DAT
            /\ core[b + 1][4] = DIRECT
            /\ core[b + 1][2] = (IF Len(result.arg) = 4 THEN NULL ELSE DIRECT)
            /\ Len(result.arg) = 4 => core[b + 1][3] = NULL
            /\ Len(result.arg) = 6 => core[b + 1][3] = "3"
            /\ core[b + 1][5] = "1"

-----------------------------------------------------------------------------
(* C30.  A program with a process keeps a valid index.                     *)

\* C30 as claimed: a Program with at least one process has its index on
\* one of them, and current_process_pc raises IndexError, on which run
\* removes the program, only for a Program without processes.
C30_LiveProgramHasValidIndex ==
    /\ Len(program.processes) >= 1 =>
            (0 <= program.index /\ program.index < Len(program.processes))
    /\ (result.op = "current_process_pc" /\ result.exc = "IndexError") =>
            Len(result.was.processes) = 0

-----------------------------------------------------------------------------
(* C31.  The processes of a program take turns in list order.              *)

\* The Program after a quantum of run that executed its current process
\* and got new_address: update_current_process_pc, then next_process.
QuantumSucceeded(prog, new_address) ==
    next_process(update_current_process_pc(prog, new_address).program).program

\* The Program after a quantum of run in which execute raised
\* RuntimeError: kill_current_process.
QuantumKilled(prog) == kill_current_process(prog).program

\* The process that follows the current one in the list, the first after
\* the last.
Following(prog) ==
    prog.processes[((prog.index + 1) % Len(prog.processes)) + 1]

\* C31 as claimed: for a Program with two processes or more, after a
\* quantum that executed the current process, and after one that killed
\* it, the program's current process is the one that followed it in the
\* list, the first one after the last.
C31_TurnsInListOrder ==
    Len(program.processes) >= 2 =>
        /\ \A new_address \in ProcPcs :
            LET o == current_process_pc(QuantumSucceeded(program, new_address))
            IN  o.exc = "none" /\ o.ret = Following(program)
        /\ LET o == current_process_pc(QuantumKilled(program))
           IN  o.exc = "none" /\ o.ret = Following(program)

-----------------------------------------------------------------------------
(* C33.  assemble and a base address outside the core.                     *)

\* C33 as claimed: assemble at a base address that is not an address of
\* the core, the size of the core among them, raises IndexError and
\* leaves every word as it was.
C33_BaseOutsideCoreRejected ==
    LET b == result.address
    IN  (result.op = "assemble" /\ (b < 0 \/ b >= Len(pre))) =>
            /\ result.exc = "IndexError"
            /\ core = pre

-----------------------------------------------------------------------------
(* C34.  The operands the assembler stores.                                *)

\* C34 as claimed: assemble of the line JMP 3 at base address b leaves the
\* opcode JMP, the mode DIRECT and the integer 3 in the word at b, and
\* assemble of the line JMP -1 leaves JMP, DIRECT and the integer -1.
C34_OperandIsSignedInteger ==
    LET b == result.address
    IN  (/\ result.op = "assemble"
         /\ 0 <= b /\ b < Len(pre)
         /\ result.arg \in { <<JMP, INT, NEWLINE, EOF>>,
                             <<JMP, MINUS, INT, NEWLINE, EOF>> }) =>
            /\ result.exc = "none"
            /\ core[b + 1][1] = JMP
            /\ core[b + 1][2] = DIRECT
            /\ core[b + 1][3] = (IF Len(result.arg) = 4 THEN 3 ELSE -1)

-----------------------------------------------------------------------------
(* C38.  The programs an interpreter registers.                            *)

\* C38 as claimed: after Interpreter(core, base_addresses) the interpreter
\* has one program for each entry of base_addresses, the i-th with the
\* single process base_addresses[i], also when entries are equal.
C38_OneProgramPerBaseAddress ==
    result.op = "Interpreter" =>
        /\ Len(programs) = Len(result.arg)
        /\ \A i \in 1..Len(result.arg) :
            /\ i <= Len(programs)
            /\ programs[i].program.processes = <<result.arg[i]>>
            /\ programs[i].program.index = 0

-----------------------------------------------------------------------------
(* C32.  The words of the core are separate list objects.                  *)

FieldWriteOps == WriteOps \ {"put_instr"}

\* C32: the words the readers see are those of the list objects; a field
\* writer at address x changes the one component it writes of the word at
\* x and nothing else; and after a MOV has copied the whole instruction at
\* s to d, with s # d, a field write to d leaves the word at s as it was,
\* and a field write to s leaves the word at d as it was.
C32_CellsNeverAlias ==
    LET seen == Contents(heap)
        x == result.address
    IN  /\ seen = core
        /\ result.op \in FieldWriteOps =>
                WriteEffect(pre, seen, result.op, result.arg, x)
        /\ (result.op \in FieldWriteOps /\ result.copied # <<>>) =>
                LET s == result.copied[1]
                    d == result.copied[2]
                IN  s # d =>
                        /\ x = d => seen[s + 1] = pre[s + 1]
                        /\ x = s => seen[d + 1] = pre[d + 1]

\* C32 witness: a MOV has copied the word at s to d, s # d, the two words
\* were equal, and put_b_field_val at d has made them differ.
C32_Witness ==
    /\ result.op = "put_b_field_val"
    /\ result.exc = "none"
    /\ result.copied # <<>>
    /\ result.copied[1] # result.copied[2]
    /\ result.address = result.copied[2]
    /\ pre[result.copied[1] + 1] = pre[result.copied[2] + 1]
    /\ Contents(heap)[result.copied[1] + 1] # Contents(heap)[result.copied[2] + 1]

-----------------------------------------------------------------------------
(* C35.  The token list tokenize returns.                                  *)

\* C35 as claimed: the list a tokenize call returns ends with an EOF
\* token, has no other EOF token, and each of its NEWLINE tokens comes
\* after a token that is not a NEWLINE.
C35_OneEofNoBlankNewline ==
    (result.op = "tokenize" /\ result.exc = "none") =>
        LET l == result.ret
        IN  /\ Len(l) >= 1
            /\ l[Len(l)][1] = EOF
            /\ \A i \in 1..(Len(l) - 1) : l[i][1] # EOF
            /\ \A i \in 1..Len(l) :
                l[i][1] = NEWLINE => (i > 1 /\ l[i - 1][1] # NEWLINE)

-----------------------------------------------------------------------------
(* C36.  Process.set_pc and invalid arguments.                             *)

\* C36 as claimed: set_pc with an address that is not an address of the
\* core, CORESIZE among them, or with a negative index, raises IndexError.
C36_SetPcRejectsInvalid ==
    LET index == result.arg[1]
        address == result.arg[2]
    IN  (/\ result.op = "set_pc"
         /\ (address < 0 \/ address >= size_arg \/ index < 0)) =>
            result.exc = "IndexError"

-----------------------------------------------------------------------------
(* C37.  The list of program counters of a Program of Program.py.          *)

\* C37 as claimed: after Program(core, i) the list of the new Program is
\* [i], and the list of the Program objects constructed before, which is
\* not empty, is as it was.
C37_ProgramOwnsItsList ==
    (result.op = "Program" /\ result.exc = "none") =>
        /\ Program_pc = <<result.arg[1]>>
        /\ Len(result.was) > 0 => Program_pc = result.was

====
